---- MODULE Spec2Model ----
(***************************************************************************)
(* Terrain core of martint/terrain (src/src/terrain.rs): the lattice hash, *)
(* the value-noise primitive, the fBm accumulator and the heightfield mesh *)
(* builder; and the application around it (src/src/main.rs): the Loading   *)
(* and Running stages, the generation task and the wireframe toggle.       *)
(*                                                                         *)
(* Numbers.  The program computes in IEEE-754 binary32.  An f32 is the     *)
(* record [m, e] standing for m * 2^e with |m| < 2^24; every operation is  *)
(* the exact result rounded to nearest, ties to even, with gradual         *)
(* underflow (e >= -149).  Infinities, NaN and the sign of zero are not    *)
(* represented: the operators are only applied to inputs whose results     *)
(* stay finite.  TLC integers are 32-bit, so 48-bit intermediates are kept *)
(* as two 24-bit halves and u32 values as two 16-bit halves.               *)
(***************************************************************************)
EXTENDS Integers, Sequences, FiniteSets, TLC

VARIABLE
    arith         \* "f32": binary32 rounding after every operation (the program);
                  \* "real": the same expressions over exact rationals

\* e, once v has been computed: the program computes its values in order,
\* and so does the evaluation of the model
After(v, e) == IF v = v THEN e ELSE e

Max(a, b) == IF a >= b THEN a ELSE b
Min(a, b) == IF a <= b THEN a ELSE b
Abs(a) == IF a < 0 THEN -a ELSE a

\* the number of bits of n, 0 <= n < 2^30
BitLen(n) == CHOOSE k \in 0..30 : n < 2^k /\ (k = 0 \/ n >= 2^(k - 1))

(***************************************************************************)
(* binary32                                                                *)
(***************************************************************************)
TwoTo23 == 2^23
TwoTo24 == 2^24
EMin == -126 - 23

F32Zero == [m |-> 0, e |-> 0]

\* the 24-bit result r * 2^e of a rounding, r <= 2^24
F32Pack(neg, r, e) ==
    IF r = 0 THEN F32Zero
    ELSE IF r = TwoTo24 THEN [m |-> IF neg THEN -TwoTo23 ELSE TwoTo23, e |-> e + 1]
    ELSE [m |-> IF neg THEN -r ELSE r, e |-> e]

\* q * 2^e rounded to nearest-even: cmp is the sign of the dropped part less
\* half a unit of q, a nonzero tail following when sticky
F32RoundHalf(neg, q, cmp, e, sticky) ==
    F32Pack(neg, IF cmp > 0 \/ (cmp = 0 /\ (sticky \/ q % 2 = 1)) THEN q + 1 ELSE q, e)

\* F32Round of a number of len bits, of which the low s are dropped
F32RoundShift(neg, hi, lo, e, sticky, len, s) ==
    IF len = 0 \/ len < s THEN F32Zero
    ELSE IF s <= 0 THEN
        [m |-> (IF neg THEN -lo ELSE lo) * 2^Min(24 - len, e - EMin),
         e |-> e - Min(24 - len, e - EMin)]
    ELSE
        F32RoundHalf(neg,
                     IF s < 24 THEN hi * 2^(24 - s) + lo \div 2^s
                     ELSE hi \div 2^(s - 24),
                     IF s < 24 THEN (lo % 2^s) - 2^(s - 1)
                     ELSE IF s = 24 THEN lo - TwoTo23
                     ELSE IF (hi % 2^(s - 24)) # 2^(s - 25)
                          THEN (hi % 2^(s - 24)) - 2^(s - 25)
                     ELSE lo,
                     e + s, sticky)

\* (hi * 2^24 + lo) * 2^e, followed by a nonzero tail when sticky, rounded to
\* nearest-even in 24 bits
F32Round(neg, hi, lo, e, sticky) ==
    F32RoundShift(neg, hi, lo, e, sticky,
                  IF hi > 0 THEN 24 + BitLen(hi) ELSE BitLen(lo),
                  Max((IF hi > 0 THEN BitLen(hi) ELSE BitLen(lo) - 24), EMin - e))

\* the f32 nearest to the integer i * 2^e, |i| < 2^24
F32Of(i, e) == F32Round(i < 0, 0, Abs(i), e, FALSE)

F32Neg(x) == [m |-> -x.m, e |-> x.e]

\* (ah * 2^12 + al) * (bh * 2^12 + bl) * 2^e: the high 24 bits and the low
\* 24 bits of the product
F32MulHalves(neg, ah, al, bh, bl, e) ==
    F32Round(neg,
             ah * bh + (ah * bl + al * bh) \div 4096
                 + (al * bl + ((ah * bl + al * bh) % 4096) * 4096) \div TwoTo24,
             (al * bl + ((ah * bl + al * bh) % 4096) * 4096) % TwoTo24, e, FALSE)

F32Mul(x, y) ==
    F32MulHalves((x.m < 0) # (y.m < 0),
                 Abs(x.m) \div 4096, Abs(x.m) % 4096,
                 Abs(y.m) \div 4096, Abs(y.m) % 4096, x.e + y.e)

\* (+/-)(hi * 2^24 + lo) * 2^e + (+/-)b * 2^e, the signs as xneg and yneg
F32AddAligned(xneg, yneg, hi, lo, b, e) ==
    F32Round(IF xneg = yneg \/ hi > 0 \/ lo >= b THEN xneg ELSE yneg,
             IF xneg = yneg THEN hi + (lo + b) \div TwoTo24
             ELSE IF lo >= b \/ hi = 0 THEN hi
             ELSE hi - 1,
             IF xneg = yneg THEN (lo + b) % TwoTo24
             ELSE IF lo >= b THEN lo - b
             ELSE IF hi = 0 THEN b - lo
             ELSE lo + TwoTo24 - b,
             e, FALSE)

\* x + y for x.e >= y.e
F32AddOrdered(x, y) ==
    IF y.m = 0 THEN x
    ELSE IF x.m = 0 THEN y
    ELSE IF x.e - y.e > 26 THEN x
    ELSE F32AddAligned(x.m < 0, y.m < 0,
                       IF x.e - y.e <= 24 THEN Abs(x.m) \div 2^(24 - (x.e - y.e))
                       ELSE Abs(x.m) * 2^(x.e - y.e - 24),
                       IF x.e - y.e <= 24
                       THEN (Abs(x.m) % 2^(24 - (x.e - y.e))) * 2^(x.e - y.e)
                       ELSE 0,
                       Abs(y.m), y.e)

F32Add(x, y) ==
    F32AddOrdered(IF x.e >= y.e THEN x ELSE y, IF x.e >= y.e THEN y ELSE x)

F32Sub(x, y) == F32Add(x, F32Neg(y))

\* the mantissa shifted up to 24 bits (exponent range ignored), for division
\* and square root
F32Norm(x) ==
    [m |-> Abs(x.m) * 2^(24 - BitLen(Abs(x.m))), e |-> x.e - (24 - BitLen(Abs(x.m)))]

RECURSIVE F32DivSteps(_, _, _, _)
F32DivSteps(q, r, d, n) ==
    IF n = 0 THEN <<q, r>>
    ELSE F32DivSteps(q * 128 + (r * 128) \div d, (r * 128) % d, d, n - 1)

\* the quotient qr[1] * 2^e, inexact when the remainder qr[2] is not 0
F32DivRound(neg, qr, e) ==
    F32Round(neg, qr[1] \div TwoTo24, qr[1] % TwoTo24, e, qr[2] # 0)

\* a / b for 24-bit mantissas
F32DivNorm(neg, a, b) ==
    F32DivRound(neg, F32DivSteps(a.m \div b.m, a.m % b.m, b.m, 4), a.e - b.e - 28)

\* x / y, y # 0
F32Div(x, y) ==
    IF x.m = 0 THEN F32Zero
    ELSE F32DivNorm((x.m < 0) # (y.m < 0), F32Norm(x), F32Norm(y))

\* digit-by-digit square root: n bit pairs of `bits` (then zeros) are brought
\* down, two at a time; r4 is the remainder with the next pair
RECURSIVE F32SqrtSteps(_, _, _, _)
F32SqrtNext(root, r4, bits, n) ==
    IF r4 >= root * 4 + 1 THEN F32SqrtSteps(root * 2 + 1, r4 - (root * 4 + 1), bits, n)
    ELSE F32SqrtSteps(root * 2, r4, bits, n)
F32SqrtSteps(root, rem, bits, n) ==
    IF n = 0 THEN <<root, rem>>
    ELSE F32SqrtNext(root, rem * 4 + ((bits \div 4^(n - 1)) % 4), bits, n - 1)

\* the root all[1] * 2^e, inexact when the remainder all[2] is not 0
F32SqrtRound(all, e) ==
    F32Round(FALSE, all[1] \div TwoTo24, all[1] % TwoTo24, e, all[2] # 0)

\* 13 more pairs, of zeros
F32SqrtZeros(top) == F32SqrtSteps(top[1], top[2], 0, 13)

\* sqrt(a) for a 24-bit mantissa; with an odd exponent the mantissa is doubled,
\* 13 pairs in both cases
F32SqrtNorm(a) ==
    F32SqrtRound(F32SqrtZeros(F32SqrtSteps(0, 0, IF a.e % 2 = 1 THEN a.m * 2 ELSE a.m, 13)),
                 (IF a.e % 2 = 1 THEN a.e - 1 ELSE a.e) \div 2 - 13)

\* sqrt(x), x >= 0
F32Sqrt(x) == IF x.m = 0 THEN F32Zero ELSE F32SqrtNorm(F32Norm(x))

\* f32::floor
F32Floor(x) ==
    IF x.e >= 0 THEN x
    ELSE F32Of(IF -x.e > 30 THEN (IF x.m < 0 THEN -1 ELSE 0) ELSE x.m \div 2^(-x.e), 0)

\* `as i32` of an integral f32: saturating
I32Max == 2147483647
F32ToI32(x) ==
    IF BitLen(Abs(x.m)) + x.e >= 32 THEN (IF x.m < 0 THEN -I32Max - 1 ELSE I32Max)
    ELSE IF x.e < 0 THEN x.m \div 2^(-x.e)
    ELSE x.m * 2^x.e


(***************************************************************************)
(* Exact arithmetic.  A natural number is its sequence of base-2^15 digits, *)
(* least significant first and without leading zeros; a real is            *)
(* [neg, mag, e, f], standing for (+/-) mag * 2^e / 5^f.                   *)
(***************************************************************************)
Base == 2^15

BDigit(a, i) == IF i <= Len(a) THEN a[i] ELSE 0

BTrim(a) ==
    LET nz == {i \in 1..Len(a) : a[i] # 0}
    IN  IF nz = {} THEN <<>>
        ELSE SubSeq(a, 1, CHOOSE i \in nz : \A j \in nz : j <= i)

\* The digit loops split their range in two, the carry passing from one half
\* to the other, so that the evaluation nests only logarithmically deep.

\* <<digits lo..hi of a + b + c, carry out>>
RECURSIVE BAddRange(_, _, _, _, _)
BAddRange(a, b, lo, hi, c) ==
    IF lo = hi THEN
        LET t == BDigit(a, lo) + BDigit(b, lo) + c
        IN  <<<<t % Base>>, t \div Base>>
    ELSE
        LET mid == (lo + hi) \div 2
            l   == BAddRange(a, b, lo, mid, c)
            h   == BAddRange(a, b, mid + 1, hi, l[2])
        IN  <<l[1] \o h[1], h[2]>>
\* the digits r[1] with the carry r[2] on top
BCarry(r) == IF r[2] = 0 THEN r[1] ELSE Append(r[1], r[2])
BAdd(a, b) ==
    IF a = <<>> /\ b = <<>> THEN <<>>
    ELSE BCarry(BAddRange(a, b, 1, Max(Len(a), Len(b)), 0))

\* <<digits lo..hi of a - b - c, borrow out>>
RECURSIVE BSubRange(_, _, _, _, _)
BSubRange(a, b, lo, hi, c) ==
    IF lo = hi THEN
        LET t == BDigit(a, lo) - BDigit(b, lo) - c
        IN  IF t < 0 THEN <<<<t + Base>>, 1>> ELSE <<<<t>>, 0>>
    ELSE
        LET mid == (lo + hi) \div 2
            l   == BSubRange(a, b, lo, mid, c)
            h   == BSubRange(a, b, mid + 1, hi, l[2])
        IN  <<l[1] \o h[1], h[2]>>
\* a - b for a >= b
BSub(a, b) == IF a = <<>> THEN <<>> ELSE BTrim(BSubRange(a, b, 1, Len(a), 0)[1])

\* -1, 0, 1 as a < b, a = b, a > b
BCmp(a, b) ==
    IF Len(a) # Len(b) THEN (IF Len(a) < Len(b) THEN -1 ELSE 1)
    ELSE IF a = b THEN 0
    ELSE IF \E k \in 1..Len(a) :
                a[k] < b[k] /\ \A j \in (k + 1)..Len(a) : a[j] = b[j] THEN -1
    ELSE 1

\* <<digits lo..hi of a * k + c, carry out>> for 0 <= k < 2^15
RECURSIVE BMulSmallRange(_, _, _, _, _)
BMulSmallRange(a, k, lo, hi, c) ==
    IF lo = hi THEN
        LET t == a[lo] * k + c
        IN  <<<<t % Base>>, t \div Base>>
    ELSE
        LET mid == (lo + hi) \div 2
            l   == BMulSmallRange(a, k, lo, mid, c)
            h   == BMulSmallRange(a, k, mid + 1, hi, l[2])
        IN  <<l[1] \o h[1], h[2]>>
BMulSmall(a, k) ==
    IF k = 0 \/ a = <<>> THEN <<>> ELSE BCarry(BMulSmallRange(a, k, 1, Len(a), 0))

BZeros(n) == [i \in 1..n |-> 0]

\* a times the number whose digits are b[lo..hi]
RECURSIVE BMulRange(_, _, _, _)
BMulRange(a, b, lo, hi) ==
    IF lo = hi THEN BMulSmall(a, b[lo])
    ELSE
        LET mid == (lo + hi) \div 2
            l   == BMulRange(a, b, lo, mid)
            h   == BMulRange(a, b, mid + 1, hi)
        IN  IF h = <<>> THEN l ELSE BAdd(l, BZeros(mid - lo + 1) \o h)
BMul(a, b) == IF a = <<>> \/ b = <<>> THEN <<>> ELSE BMulRange(a, b, 1, Len(b))

\* a * 2^k
BShl(a, k) ==
    IF a = <<>> THEN <<>> ELSE BZeros(k \div 15) \o BMulSmall(a, 2^(k % 15))

\* a * 5^k, six factors at a time
RECURSIVE BMulPow5(_, _)
BMulPow5(a, k) ==
    IF k = 0 THEN a ELSE BMulPow5(BMulSmall(a, 5^Min(k, 6)), k - Min(k, 6))

\* <<digits lo..hi of the quotient, remainder>> of (r, a[hi], .. a[lo]) by d,
\* 0 <= r < d < 2^15
RECURSIVE BDivSmallRange(_, _, _, _, _)
BDivSmallRange(a, d, lo, hi, r) ==
    IF lo = hi THEN
        LET t == r * Base + a[lo]
        IN  <<<<t \div d>>, t % d>>
    ELSE
        LET mid == (lo + hi) \div 2
            h   == BDivSmallRange(a, d, mid + 1, hi, r)
            l   == BDivSmallRange(a, d, lo, mid, h[2])
        IN  <<l[1] \o h[1], l[2]>>
\* <<a div d, a mod d>>, the quotient with its leading zeros
BDivSmall(a, d) ==
    IF a = <<>> THEN <<<<>>, 0>> ELSE BDivSmallRange(a, d, 1, Len(a), 0)

\* <<floor(a / 5^f), whether the division left a remainder>>, six factors
\* at a time; qr is the quotient by the first of them, and its remainder
RECURSIVE BDivPow5(_, _, _)
BDivPow5Rest(qr, f, inexact) == BDivPow5(qr[1], f, inexact \/ qr[2] # 0)
BDivPow5(a, f, inexact) ==
    IF f = 0 THEN <<BTrim(a), inexact>>
    ELSE BDivPow5Rest(BDivSmall(a, 5^Min(f, 6)), f - Min(f, 6), inexact)

\* <<floor(a / (2^k * 5^f)), whether the division left a remainder>>; the
\* low `drop` digits go first
BDivPowDrop(a, k, f, inexact, drop) ==
    BDivPow5Rest(BDivSmall(SubSeq(a, drop + 1, Len(a)), 2^(k % 15)), f,
                 inexact \/ \E i \in 1..drop : a[i] # 0)
BDivPow(a, k, f, inexact) == BDivPowDrop(a, k, f, inexact, Min(k \div 15, Len(a)))

\* the value of a natural number below 2^31
RECURSIVE BToInt(_)
BToInt(a) == IF a = <<>> THEN 0 ELSE a[1] + Base * BToInt(Tail(a))

RealOf(i, e, f) ==
    [neg |-> i < 0,
     mag |-> BTrim(<<Abs(i) % Base, (Abs(i) \div Base) % Base, Abs(i) \div (Base * Base)>>),
     e |-> e, f |-> f]

RealNeg(x) == [x EXCEPT !.neg = (x.mag # <<>>) /\ ~x.neg]

\* the digits of x over the denominator 2^-e * 5^f
RealMagAt(x, e, f) == BMulPow5(BShl(x.mag, x.e - e), f - x.f)

\* (+/-)a - (+/-)b of opposite signs, c comparing a with b
RealAddOpposite(xneg, yneg, a, b, e, f, c) ==
    IF c = 0 THEN [neg |-> FALSE, mag |-> <<>>, e |-> e, f |-> f]
    ELSE [neg |-> IF c > 0 THEN xneg ELSE yneg,
          mag |-> BSub(IF c > 0 THEN a ELSE b, IF c > 0 THEN b ELSE a),
          e |-> e, f |-> f]

\* the sum of two reals of magnitudes a and b over the same denominator
RealAddAt(xneg, yneg, a, b, e, f) ==
    IF xneg = yneg THEN [neg |-> xneg, mag |-> BAdd(a, b), e |-> e, f |-> f]
    ELSE RealAddOpposite(xneg, yneg, a, b, e, f, BCmp(a, b))

RealAdd(x, y) ==
    RealAddAt(x.neg, y.neg,
              RealMagAt(x, Min(x.e, y.e), Max(x.f, y.f)),
              RealMagAt(y, Min(x.e, y.e), Max(x.f, y.f)),
              Min(x.e, y.e), Max(x.f, y.f))

RealSub(x, y) == RealAdd(x, RealNeg(y))

RealMul(x, y) ==
    [neg |-> x.mag # <<>> /\ y.mag # <<>> /\ x.neg # y.neg,
     mag |-> BMul(x.mag, y.mag), e |-> x.e + y.e, f |-> x.f + y.f]

\* x / y for y = (+/-) 2^a * 5^b, held in one digit
RECURSIVE Pow2In(_)
Pow2In(n) == IF n % 2 = 0 THEN 1 + Pow2In(n \div 2) ELSE 0
RECURSIVE Pow5In(_)
Pow5In(n) == IF n % 5 = 0 THEN 1 + Pow5In(n \div 5) ELSE 0
\* x / ((+/-) 2^a * 5^b)
RealDivPow(x, neg, a, b) ==
    [neg |-> (x.mag # <<>>) /\ neg, mag |-> BMulPow5(x.mag, Max(-(x.f + b), 0)),
     e |-> x.e - a, f |-> Max(x.f + b, 0)]
RealDiv(x, y) ==
    RealDivPow(x, x.neg # y.neg, Pow2In(BToInt(y.mag)) + y.e, Pow5In(BToInt(y.mag)) - y.f)

\* floor, as an integer real: qi is the magnitude truncated, and whether
\* that was inexact
RealFloorRound(neg, qi) ==
    [neg |-> neg /\ (qi[2] \/ qi[1] # <<>>),
     mag |-> IF neg /\ qi[2] THEN BAdd(qi[1], <<1>>) ELSE qi[1], e |-> 0, f |-> 0]
RealFloor(x) ==
    RealFloorRound(x.neg, BDivPow(BShl(x.mag, Max(x.e, 0)), Max(-x.e, 0), x.f, FALSE))

\* an integral real in the range of i32, as an integer
RealToI32(x) == (IF x.neg THEN -1 ELSE 1) * BToInt(BShl(x.mag, x.e))

RealOfF32(x) == RealOf(x.m, x.e, 0)

RealSign(x) == IF x.mag = <<>> THEN 0 ELSE IF x.neg THEN -1 ELSE 1

(***************************************************************************)
(* The arithmetic of the program's expressions: binary32 as the program    *)
(* computes them, or the same expressions over the reals.                  *)
(***************************************************************************)
\* the literal i * 2^e / 5^f (0.8 is 4/5, 1.0 / 4294967296.0 is 2^-32)
Lit(i, e, f) == IF arith = "f32" THEN F32Div(F32Of(i, e), F32Of(5^f, 0))
                ELSE RealOf(i, e, f)
\* the whole number i, |i| < 2^24
Num(i) == IF arith = "f32" THEN F32Of(i, 0) ELSE RealOf(i, 0, 0)
\* the operands of an operation are computed before it
Add(x, y) == After(<<x, y>>, IF arith = "f32" THEN F32Add(x, y) ELSE RealAdd(x, y))
Sub(x, y) == After(<<x, y>>, IF arith = "f32" THEN F32Sub(x, y) ELSE RealSub(x, y))
Mul(x, y) == After(<<x, y>>, IF arith = "f32" THEN F32Mul(x, y) ELSE RealMul(x, y))
Div(x, y) == After(<<x, y>>, IF arith = "f32" THEN F32Div(x, y) ELSE RealDiv(x, y))
Neg(x) == After(x, IF arith = "f32" THEN F32Neg(x) ELSE RealNeg(x))
Floor(x) == After(x, IF arith = "f32" THEN F32Floor(x) ELSE RealFloor(x))
ToI32(x) == After(x, IF arith = "f32" THEN F32ToI32(x) ELSE RealToI32(x))
\* an f32 produced by a conversion, as a value of the arithmetic
OfF32(x) == IF arith = "f32" THEN x ELSE RealOfF32(x)
Sign(x) == IF arith = "f32" THEN (IF x.m = 0 THEN 0 ELSE IF x.m < 0 THEN -1 ELSE 1)
           ELSE RealSign(x)
Eq(x, y) == Sign(Sub(x, y)) = 0

\* glam Vec2 is <<x, y>>, Vec3 <<x, y, z>>, Mat2 <<x_axis, y_axis>> (columns)
VAdd(v, w) == <<Add(v[1], w[1]), Add(v[2], w[2])>>
VSub(v, w) == <<Sub(v[1], w[1]), Sub(v[2], w[2])>>
VMul(v, w) == <<Mul(v[1], w[1]), Mul(v[2], w[2])>>
VScale(k, v) == <<Mul(k, v[1]), Mul(k, v[2])>>
VMulScalar(v, k) == <<Mul(v[1], k), Mul(v[2], k)>>
VDivScalar(v, k) == <<Div(v[1], k), Div(v[2], k)>>
VFloor(v) == <<Floor(v[1]), Floor(v[2])>>
\* Mat2 * Vec2: x_axis * v.x + y_axis * v.y
MulVec2(M, v) == VAdd(VMulScalar(M[1], v[1]), VMulScalar(M[2], v[2]))
\* Mat2 * Mat2: the columns of the right factor, each multiplied by M
MulMat2(M, N) == <<MulVec2(M, N[1]), MulVec2(M, N[2])>>
\* f32 * Mat2
ScaleMat2(k, M) == <<VScale(k, M[1]), VScale(k, M[2])>>
Mat2Identity == <<<<Num(1), Num(0)>>, <<Num(0), Num(1)>>>>

(***************************************************************************)
(* u32: <<high 16 bits, low 16 bits>>                                      *)
(***************************************************************************)
TwoTo16 == 2^16

\* `as u32` of an i32
U32Of(i) == <<(i \div TwoTo16) % TwoTo16, i % TwoTo16>>

\* the 32-bit product of two 16-bit numbers
Mul16(x, y) ==
    LET p1 == (x \div 256) * y
        p0 == (x % 256) * y
        s  == (p1 % 256) * 256 + p0
    IN  <<p1 \div 256 + s \div TwoTo16, s % TwoTo16>>

wrapping_mul(a, b) ==
    LET p == Mul16(a[2], b[2])
    IN  <<(p[1] + Mul16(a[1], b[2])[2] + Mul16(a[2], b[1])[2]) % TwoTo16, p[2]>>

wrapping_add(a, b) ==
    <<(a[1] + b[1] + (a[2] + b[2]) \div TwoTo16) % TwoTo16, (a[2] + b[2]) % TwoTo16>>

\* h >> n, 0 < n < 16
U32Shr(u, n) == <<u[1] \div 2^n, (u[1] % 2^n) * 2^(16 - n) + u[2] \div 2^n>>

\* x ^ y for x, y < 2^n, n a power of two: the two halves of the bits
RECURSIVE XorBits(_, _, _)
XorBits(x, y, n) ==
    IF n = 1 THEN (x + y) % 2
    ELSE LET m == 2^(n \div 2)
         IN  XorBits(x % m, y % m, n \div 2) + m * XorBits(x \div m, y \div m, n \div 2)
U32Xor(a, b) == <<XorBits(a[1], b[1], 16), XorBits(a[2], b[2], 16)>>

\* `as f32` of a u32: round to nearest-even in 24 bits
U32ToF32(u) == F32Round(FALSE, u[1] \div 256, (u[1] % 256) * TwoTo16 + u[2], 0, FALSE)

(***************************************************************************)
(* terrain.rs                                                              *)
(***************************************************************************)
VARIABLES
    pc,           \* position of the running computation
    resolution,   \* setup_terrain: grid subdivisions per side
    row, col,     \* setup_terrain: loop counters
    positions,    \* setup_terrain: Vec<[f32; 3]>
    normals,      \* setup_terrain: Vec<[f32; 3]>
    indices,      \* setup_terrain: Vec<u32>
    ix, iy,       \* hash: the lattice coordinates
    h,            \* hash: the running u32
    hashed,       \* hash: the value returned
    t,            \* noise: the input point
    p,            \* noise: the cell, t.floor()
    w,            \* noise: the fractional part, t.fract_gl()
    corners,      \* noise: the four lattice points handed to hash
    sampled,      \* noise: the (value, derivative) returned
    beside,       \* noise: what the formulas of the cells to the left and
                  \* below give at the same point
    point,        \* fbm: the input point
    octave,       \* fbm: octaves completed
    acc           \* fbm: the loop variables p, scale, rotation, value, derivative

mesh_vars  == <<resolution, row, col, positions, normals, indices>>
hash_vars  == <<ix, iy, h, hashed>>
noise_vars == <<t, p, w, corners, sampled, beside>>
fbm_vars   == <<point, octave, acc>>

(***************************************************************************)
(* main.rs: the application around the terrain core.  The engine runs the  *)
(* schedules of a frame in turn: input and StateTransition, then Update,   *)
(* whose systems run once each in an order the tuple in main does not fix, *)
(* then the commands the systems queued are applied to the world.          *)
(***************************************************************************)
VARIABLES
    stage,          \* State<Stage>
    next_state,     \* NextState<Stage>: "Unchanged" or the stage asked for
    loaded,         \* TerrainManager.loaded
    wireframe_mode, \* TerrainManager.wireframe_mode
    show_normals,   \* TerrainManager.show_normals
    tasks,          \* the tasks handed to the AsyncComputeTaskPool, in order
    task_entities,  \* the entities carrying TerrainGenerationTask(tasks[i])
    tiles,          \* the Tile entities: TRUE where the entity has Wireframe
    normal_lines,   \* the NormalLines entities: TRUE where Visibility::Visible
    commands,       \* Commands queued by the systems and not yet applied
    schedule,       \* the schedule of the frame that runs next
    ran,            \* the systems of Update that ran in this frame
    just_pressed,   \* ButtonInput<KeyCode>: keys pressed since the last frame
    presses         \* the frames in which toggle_wireframe_system saw KeyM

app_vars ==
    <<stage, next_state, loaded, wireframe_mode, show_normals, tasks,
      task_entities, tiles, normal_lines, commands, schedule, ran,
      just_pressed, presses>>

vars == <<arith, app_vars, pc, mesh_vars, hash_vars, noise_vars, fbm_vars>>

seed == <<49842, 44605>>              \* 3266489917 = 49842 * 2^16 + 44605
HashMulX == <<5718, 26545>>           \* 374761393
HashMulY == <<10196, 60207>>          \* 668265263
HashMulH == <<19441, 40801>>          \* 1274126177

\* seed + ix * 374761393 + iy * 668265263, wrapping
hash_combine(x, y) ==
    wrapping_add(wrapping_add(seed, wrapping_mul(U32Of(x), HashMulX)),
                 wrapping_mul(U32Of(y), HashMulY))

\* `h ^= h >> 13; h = h.wrapping_mul(1274126177)`
hash_avalanche(u) == After(u, wrapping_mul(U32Xor(u, U32Shr(u, 13)), HashMulH))

\* `(h as f32) * (1.0 / 4294967296.0)`
hash_float(u) == After(u, Mul(OfF32(U32ToF32(u)), Lit(1, -32, 0)))

\* `p.x.floor() as i32`, `p.y.floor() as i32`
lattice(v) == <<ToI32(Floor(v[1])), ToI32(Floor(v[2]))>>

\* hash from `let mut h` on
hash_at(l) == After(l, hash_float(hash_avalanche(hash_combine(l[1], l[2]))))
hash(v) == hash_at(lattice(v))

smoothstep(x) == Mul(Mul(x, x), Sub(Num(3), Mul(Num(2), x)))

fract_gl(v) == VSub(v, VFloor(v))

\* noise from `let value` on: the value and the derivative from the
\* coefficients k0..k3, the blending weights sx, sz and ds
noise_blend(k0, k1, k2, k3, sx, sz, ds) ==
    After(<<k0, k1, k2, k3, sx, sz, ds>>,
          [value |-> Add(Add(Add(k0, Mul(k1, sx)), Mul(k2, sz)), Mul(Mul(k3, sx), sz)),
           derivative |-> <<Mul(ds[1], Add(k1, Mul(k3, sz))),
                            Mul(ds[2], Add(k2, Mul(k3, sx)))>>])

\* noise_corners with d subtracted in k3
noise_corners_minus_d(a, b, c, d, frac) ==
    After(<<a, b, c, d>>,
          noise_blend(a, Sub(b, a), Sub(c, a), Sub(Sub(Sub(a, b), c), d),
                      smoothstep(frac[1]), smoothstep(frac[2]),
                      VMul(VScale(Num(6), frac),
                           <<Sub(Num(1), frac[1]), Sub(Num(1), frac[2])>>)))

\* noise from `let k0` on: a, b, c, d are the hashes of the corners, frac is w
noise_corners(a, b, c, d, frac) ==
    After(<<a, b, c, d>>,
          noise_blend(a, Sub(b, a), Sub(c, a), Add(Sub(Sub(a, b), c), d),
                      smoothstep(frac[1]), smoothstep(frac[2]),
                      VMul(VScale(Num(6), frac),
                           <<Sub(Num(1), frac[1]), Sub(Num(1), frac[2])>>)))

\* the lattice points of the four calls of hash, as hash floors and converts
\* its argument
noise_lattice(cell) ==
    <<lattice(VAdd(cell, <<Num(0), Num(0)>>)), lattice(VAdd(cell, <<Num(1), Num(0)>>)),
      lattice(VAdd(cell, <<Num(0), Num(1)>>)), lattice(VAdd(cell, <<Num(1), Num(1)>>))>>

\* noise once the cell p and the fractional part w are known
noise_cell(cell, frac) ==
    After(<<cell, frac>>,
          noise_corners(hash(VAdd(cell, <<Num(0), Num(0)>>)),
                        hash(VAdd(cell, <<Num(1), Num(0)>>)),
                        hash(VAdd(cell, <<Num(0), Num(1)>>)),
                        hash(VAdd(cell, <<Num(1), Num(1)>>)), frac))

noise(v) == noise_cell(VFloor(v), fract_gl(v))

ROTATION == <<<<Lit(4, 0, 1), Lit(3, 0, 1)>>, <<Lit(-3, 0, 1), Lit(4, 0, 1)>>>>
ROTATION_TRANSPOSE == <<<<Lit(4, 0, 1), Lit(-3, 0, 1)>>, <<Lit(3, 0, 1), Lit(4, 0, 1)>>>>
scale_factor == Num(2)
Octaves == 11

\* the loop variables of fbm before the first pass
fbm_init(v) ==
    [p |-> v, scale |-> Num(1), rotation |-> Mat2Identity,
     value |-> Num(0), derivative |-> <<Num(0), Num(0)>>]

\* fbm_accumulate with ROTATION in the place of ROTATION_TRANSPOSE
fbm_accumulate_untransposed(s, n) ==
    After(<<s, n>>,
          [value      |-> Add(s.value, Mul(s.scale, n.value)),
           derivative |-> VAdd(s.derivative,
                               MulVec2(ScaleMat2(s.scale, s.rotation), n.derivative)),
           scale      |-> Div(s.scale, scale_factor),
           p          |-> MulVec2(ScaleMat2(scale_factor, ROTATION), s.p),
           rotation   |-> MulMat2(ScaleMat2(scale_factor, ROTATION), s.rotation)])

\* the loop body of fbm after `noise(p)` has returned n
fbm_accumulate(s, n) ==
    After(<<s, n>>,
          [value      |-> Add(s.value, Mul(s.scale, n.value)),
           derivative |-> VAdd(s.derivative,
                               MulVec2(ScaleMat2(s.scale, s.rotation), n.derivative)),
           scale      |-> Div(s.scale, scale_factor),
           p          |-> MulVec2(ScaleMat2(scale_factor, ROTATION), s.p),
           rotation   |-> MulMat2(ScaleMat2(scale_factor, ROTATION_TRANSPOSE),
                                  s.rotation)])

\* one pass of the loop body of fbm
fbm_octave(s) == fbm_accumulate(s, noise(s.p))

\* the loop variables after passes first..last of `for _ in 0..11`, from s
RECURSIVE fbm_loop(_, _, _)
fbm_loop(s, first, last) ==
    After(s, IF first > last THEN s
             ELSE IF first = last THEN fbm_octave(s)
             ELSE fbm_loop(fbm_loop(s, first, (first + last) \div 2),
                           (first + last) \div 2 + 1, last))

\* `(value, derivative)`
fbm_result(s) == After(s, [value |-> s.value, derivative |-> s.derivative])

fbm(v) == fbm_result(fbm_loop(fbm_init(v), 1, Octaves))

amplitude == 300
scale == 800

\* Vec3::length
length(v) == F32Sqrt(Add(Add(Mul(v[1], v[1]), Mul(v[2], v[2])), Mul(v[3], v[3])))

normalize_by(v, length_recip) ==
    After(length_recip,
          <<Mul(v[1], length_recip), Mul(v[2], length_recip), Mul(v[3], length_recip)>>)

\* Vec3::normalize: self * (1.0 / self.length())
normalize(v) == After(v, normalize_by(v, Div(Num(1), length(v))))

\* the pair returned by sample
sample_result(adjusted_y, adjusted_d) ==
    After(<<adjusted_y, adjusted_d>>,
          [y |-> adjusted_y,
           normal |-> normalize(<<Neg(adjusted_d[1]), Num(1), Neg(adjusted_d[2])>>)])

\* sample_adjust without the division of the gradient by scale
sample_adjust_unscaled(r) ==
    sample_result(Mul(r.value, Num(amplitude)), VMulScalar(r.derivative, Num(amplitude)))

\* sample after fbm has returned r = (y, d)
sample_adjust(r) ==
    After(r, sample_result(Mul(r.value, Num(amplitude)),
                           VDivScalar(VMulScalar(r.derivative, Num(amplitude)),
                                      Num(scale))))

sample(x, z) == sample_adjust(fbm(VDivScalar(<<x, z>>, Num(scale))))

(***************************************************************************)
(* setup_terrain: the vertex loops, then the index loops                   *)
(***************************************************************************)
MaxRes == 10

\* `0..=resolution`
vertex_range_exclusive == 0..(resolution - 1)
vertex_range == 0..resolution

\* `0..resolution`
quad_range_inclusive == 0..resolution
quad_range == 0..(resolution - 1)

\* `row as f32 - resolution as f32 / 2.0`
grid_coord_truncated(i) == Sub(Num(i), Num(resolution \div 2))
grid_coord(i) == Sub(Num(i), Div(Num(resolution), Num(2)))

top_left(r, c) == r * (resolution + 1) + c
top_right(r, c) == top_left(r, c) + 1
bottom_left(r, c) == (r + 1) * (resolution + 1) + c
bottom_right(r, c) == bottom_left(r, c) + 1

quad_other_diagonal(r, c) ==
    <<top_left(r, c), top_right(r, c), bottom_right(r, c),
      top_left(r, c), bottom_right(r, c), bottom_left(r, c)>>
quad_reversed(r, c) ==
    <<top_left(r, c), bottom_left(r, c), top_right(r, c),
      top_right(r, c), bottom_left(r, c), bottom_right(r, c)>>
\* the six pushes of one pass of the index loops
quad(r, c) ==
    <<top_left(r, c), top_right(r, c), bottom_left(r, c),
      top_right(r, c), bottom_right(r, c), bottom_left(r, c)>>

\* the variables of a function that is not running
MeshIdle ==
    /\ resolution = 0 /\ row = 0 /\ col = 0
    /\ positions = <<>> /\ normals = <<>> /\ indices = <<>>
HashIdle == ix = 0 /\ iy = 0 /\ h = <<0, 0>> /\ hashed = F32Zero
NoiseIdle ==
    t = <<>> /\ p = <<>> /\ w = <<>> /\ corners = <<>> /\ sampled = <<>> /\ beside = <<>>
FbmIdle == point = <<>> /\ octave = 0 /\ acc = <<>>

\* the application as main builds it: TerrainManager::default(), the default
\* Stage, an empty world, no frame run yet
AppIdle ==
    /\ stage = "Loading" /\ next_state = "Unchanged"
    /\ loaded = FALSE /\ wireframe_mode = FALSE /\ show_normals = FALSE
    /\ tasks = <<>> /\ task_entities = {}
    /\ tiles = <<>> /\ normal_lines = <<>> /\ commands = <<>>
    /\ schedule = "StateTransition" /\ ran = {} /\ just_pressed = {}
    /\ presses = 0

Init ==
    /\ arith = "f32"
    /\ AppIdle
    /\ pc = "vertices"
    /\ resolution \in 0..MaxRes
    /\ row = 0 /\ col = 0
    /\ positions = <<>> /\ normals = <<>> /\ indices = <<>>
    /\ HashIdle /\ NoiseIdle /\ FbmIdle

\* one pass of the body of the vertex loops
PushVertex ==
    /\ pc = "vertices"
    /\ row \in vertex_range
    /\ \E x \in {grid_coord(row)}, z \in {grid_coord(col)} :
         \E s \in {sample(x, z)} :
            /\ positions' = Append(positions, <<x, s.y, z>>)
            /\ normals' = Append(normals, s.normal)
    /\ IF col + 1 \in vertex_range THEN row' = row /\ col' = col + 1
                                   ELSE row' = row + 1 /\ col' = 0
    /\ UNCHANGED <<arith, app_vars, pc, resolution, indices, hash_vars, noise_vars, fbm_vars>>

EndVertices ==
    /\ pc = "vertices"
    /\ row \notin vertex_range
    /\ pc' = "indices"
    /\ row' = 0 /\ col' = 0
    /\ UNCHANGED <<arith, app_vars, resolution, positions, normals, indices,
                   hash_vars, noise_vars, fbm_vars>>

\* one pass of the body of the index loops
PushQuad ==
    /\ pc = "indices"
    /\ row \in quad_range
    /\ indices' = indices \o quad(row, col)
    /\ IF col + 1 \in quad_range THEN row' = row /\ col' = col + 1
                                 ELSE row' = row + 1 /\ col' = 0
    /\ UNCHANGED <<arith, app_vars, pc, resolution, positions, normals,
                   hash_vars, noise_vars, fbm_vars>>

EndIndices ==
    /\ pc = "indices"
    /\ row \notin quad_range
    /\ pc' = "mesh"
    /\ UNCHANGED <<arith, app_vars, mesh_vars, hash_vars, noise_vars, fbm_vars>>

Next == PushVertex \/ EndVertices \/ PushQuad \/ EndIndices

Spec == Init /\ [][Next]_vars

(***************************************************************************)
(* Properties of the mesh.  Stored binary32 values are compared as the     *)
(* exact rationals they stand for.                                         *)
(***************************************************************************)
Exact(x) == IF arith = "f32" THEN RealOfF32(x) ELSE x
RealEq(x, y) == RealSign(RealSub(x, y)) = 0
RealLt(x, y) == RealSign(RealSub(x, y)) < 0
RealLe(x, y) == RealSign(RealSub(x, y)) <= 0

Exact3(v) == <<Exact(v[1]), Exact(v[2]), Exact(v[3])>>
Sub3(v, u) == <<RealSub(v[1], u[1]), RealSub(v[2], u[2]), RealSub(v[3], u[3])>>
Add3(v, u) == <<RealAdd(v[1], u[1]), RealAdd(v[2], u[2]), RealAdd(v[3], u[3])>>
Dot3(v, u) == RealAdd(RealAdd(RealMul(v[1], u[1]), RealMul(v[2], u[2])),
                      RealMul(v[3], u[3]))
Cross3(v, u) == <<RealSub(RealMul(v[2], u[3]), RealMul(v[3], u[2])),
                  RealSub(RealMul(v[3], u[1]), RealMul(v[1], u[3])),
                  RealSub(RealMul(v[1], u[2]), RealMul(v[2], u[1]))>>

VertexCount == (resolution + 1) * (resolution + 1)
VerticesDone == pc \in {"indices", "mesh"}

\* C1: the mesh has (resolution+1)^2 positions, as many normals, one per
\* position at every moment, and resolution^2 * 6 indices; resolution 0
\* ends with 1 position, 1 normal and no index.
C1_BufferLengths ==
    /\ Len(normals) = Len(positions)
    /\ VerticesDone => Len(positions) = VertexCount
    /\ pc = "mesh" => Len(indices) = resolution * resolution * 6
    /\ pc = "mesh" /\ resolution = 0 =>
          Len(positions) = 1 /\ Len(normals) = 1 /\ Len(indices) = 0
C1_Witness ==
    pc = "mesh" /\ resolution = 0 /\ Len(positions) = 1 /\ indices = <<>>

\* C2: every index pushed is at least 0 and below (resolution+1)^2, the
\* number of positions.
C2_IndicesInRange ==
    \A i \in 1..Len(indices) :
        /\ indices[i] >= 0
        /\ indices[i] < VertexCount
        /\ indices[i] < Len(positions)
C2_Witness ==
    /\ pc = "mesh" /\ resolution >= 2
    /\ \E i \in 1..Len(indices) : indices[i] = VertexCount - 1

\* C3: the k-th group of six indices belongs to the quad (k div resolution,
\* k mod resolution) and is top_left, top_right, bottom_left, top_right,
\* bottom_right, bottom_left; resolution 1 gives 0,1,2, 1,3,2.
C3_QuadIndices ==
    /\ Len(indices) % 6 = 0
    /\ \A k \in 0..(Len(indices) \div 6 - 1) :
          LET r  == k \div resolution
              c  == k % resolution
              tl == r * (resolution + 1) + c
              bl == (r + 1) * (resolution + 1) + c
          IN  SubSeq(indices, 6 * k + 1, 6 * k + 6)
                  = <<tl, tl + 1, bl, tl + 1, bl + 1, bl>>
    /\ pc = "mesh" /\ resolution = 1 => indices = <<0, 1, 2, 1, 3, 2>>
C3_Witness ==
    pc = "mesh" /\ resolution = 1 /\ indices = <<0, 1, 2, 1, 3, 2>>

\* the k-th triangle of the index buffer, as positions of the sequences
Triangle(k) == <<indices[3 * k + 1] + 1, indices[3 * k + 2] + 1, indices[3 * k + 3] + 1>>
FaceNormal(tri) ==
    Cross3(Sub3(Exact3(positions[tri[2]]), Exact3(positions[tri[1]])),
           Sub3(Exact3(positions[tri[3]]), Exact3(positions[tri[1]])))
NormalSum(tri) ==
    Add3(Add3(Exact3(normals[tri[1]]), Exact3(normals[tri[2]])), Exact3(normals[tri[3]]))

\* C4: for every triangle pushed, the cross product of its edges, taken in
\* the order of its indices, has a positive y component and a positive dot
\* product with the sum (hence the average) of its three vertex normals.
C4_Winding ==
    \A k \in 0..(Len(indices) \div 3 - 1) :
        LET face == FaceNormal(Triangle(k))
        IN  /\ RealSign(face[2]) = 1
            /\ RealSign(Dot3(face, NormalSum(Triangle(k)))) = 1
C4_Witness ==
    /\ pc = "mesh" /\ resolution = 2 /\ Len(indices) = 24
    /\ RealSign(Dot3(FaceNormal(Triangle(7)), NormalSum(Triangle(7)))) = 1

\* C5: the position at row * (resolution+1) + col is (x, h * amplitude, z)
\* with x = row - resolution/2 and z = col - resolution/2 as exact halves and
\* h the value of fbm at (x, z) / scale; the six indices of quad (row, col)
\* point at the positions of (row, col), (row, col+1), (row+1, col),
\* (row, col+1), (row+1, col+1), (row+1, col).
HalfCoord(i) == RealOf(2 * i - resolution, -1, 0)
AtGrid(v, r, c) == RealEq(Exact(v[1]), HalfCoord(r)) /\ RealEq(Exact(v[3]), HalfCoord(c))
C5_Positions ==
    /\ \A i \in 1..Len(positions) :
          AtGrid(positions[i], (i - 1) \div (resolution + 1), (i - 1) % (resolution + 1))
    /\ pc = "mesh" =>
          \A r \in 0..resolution, c \in 0..resolution :
              LET v == positions[r * (resolution + 1) + c + 1]
                  at == VDivScalar(<<v[1], v[3]>>, Num(scale))
              IN  v[2] = Mul(fbm(at).value, Num(amplitude))
    /\ \A k \in 0..(Len(indices) \div 6 - 1) :
          LET r == k \div resolution
              c == k % resolution
          IN  /\ AtGrid(positions[indices[6 * k + 1] + 1], r, c)
              /\ AtGrid(positions[indices[6 * k + 2] + 1], r, c + 1)
              /\ AtGrid(positions[indices[6 * k + 3] + 1], r + 1, c)
              /\ AtGrid(positions[indices[6 * k + 4] + 1], r, c + 1)
              /\ AtGrid(positions[indices[6 * k + 5] + 1], r + 1, c + 1)
              /\ AtGrid(positions[indices[6 * k + 6] + 1], r + 1, c)
C5_Witness ==
    /\ pc = "mesh" /\ resolution = 1
    /\ RealEq(Exact(positions[1][1]), RealOf(-1, -1, 0))
    /\ RealEq(Exact(positions[4][3]), RealOf(1, -1, 0))
    /\ positions[4][2] = Mul(fbm(<<Div(Lit(1, -1, 0), Num(scale)),
                                   Div(Lit(1, -1, 0), Num(scale))>>).value,
                              Num(amplitude))

\* C10: every normal is normalize(-grad.x * amplitude / scale, 1,
\* -grad.y * amplitude / scale) for grad the derivative of fbm at (x, z) / scale,
\* and its length is within 1/10000 of 1.
LengthSquared(n) == Dot3(Exact3(n), Exact3(n))
UnitLength(n) ==
    /\ RealLe(RealMul(RealOf(9999, -4, 4), RealOf(9999, -4, 4)), LengthSquared(n))
    /\ RealLe(LengthSquared(n), RealMul(RealOf(10001, -4, 4), RealOf(10001, -4, 4)))
ChainRuleNormal(grad) ==
    normalize(<<Neg(Div(Mul(grad[1], Num(amplitude)), Num(scale))), Num(1),
                Neg(Div(Mul(grad[2], Num(amplitude)), Num(scale)))>>)
C10_Normals ==
    pc = "mesh" =>
        \A i \in 1..Len(normals) :
            /\ normals[i] = ChainRuleNormal(
                    fbm(VDivScalar(<<positions[i][1], positions[i][3]>>,
                                   Num(scale))).derivative)
            /\ UnitLength(normals[i])
C10_Witness ==
    /\ pc = "mesh" /\ resolution = 3
    /\ UnitLength(normals[16])
    /\ normals[16][1].m # 0 /\ normals[16][3].m # 0

(***************************************************************************)
(* hash, one statement at a time, from the lattice coordinates on          *)
(***************************************************************************)
HashRange == 3
HashInputs ==
    (((-HashRange)..HashRange) \X ((-HashRange)..HashRange))
        \cup {<<-1894, 353>>, <<2501, -2053>>}

InitHash ==
    /\ arith = "f32"
    /\ AppIdle
    /\ pc = "hash"
    /\ \E l \in HashInputs : ix = l[1] /\ iy = l[2]
    /\ h = <<0, 0>> /\ hashed = F32Zero
    /\ MeshIdle /\ NoiseIdle /\ FbmIdle

\* `let mut h = seed` and the two `h = h.wrapping_add(...)`
HashCombine ==
    /\ pc = "hash"
    /\ h' = hash_combine(ix, iy)
    /\ pc' = "avalanche"
    /\ UNCHANGED <<arith, app_vars, ix, iy, hashed, mesh_vars, noise_vars, fbm_vars>>

HashAvalanche ==
    /\ pc = "avalanche"
    /\ h' = hash_avalanche(h)
    /\ pc' = "convert"
    /\ UNCHANGED <<arith, app_vars, ix, iy, hashed, mesh_vars, noise_vars, fbm_vars>>

HashConvert ==
    /\ pc = "convert"
    /\ hashed' = hash_float(h)
    /\ pc' = "hashed"
    /\ UNCHANGED <<arith, app_vars, ix, iy, h, mesh_vars, noise_vars, fbm_vars>>

NextHash == HashCombine \/ HashAvalanche \/ HashConvert

SpecHash == InitHash /\ [][NextHash]_vars

\* C6: the value hash returns is at least 0 and strictly below 1, whatever
\* the lattice coordinates and whatever the u32 it is converted from.
C6_HashBelowOne ==
    pc = "hashed" =>
        /\ RealSign(Exact(hashed)) >= 0
        /\ RealLt(Exact(hashed), RealOf(1, 0, 0))

(***************************************************************************)
(* noise, one statement at a time                                          *)
(***************************************************************************)
MaxQ == 4
\* quarters, and a negative number smaller than half an ulp of 1
NoiseCoords == {F32Of(k, -2) : k \in (-MaxQ)..MaxQ} \cup {F32Of(-1, -30)}

InitNoise ==
    /\ arith = "f32"
    /\ AppIdle
    /\ pc = "noise"
    /\ t \in NoiseCoords \X NoiseCoords
    /\ p = <<>> /\ w = <<>> /\ corners = <<>> /\ sampled = <<>> /\ beside = <<>>
    /\ MeshIdle /\ HashIdle /\ FbmIdle

NoiseFloor ==
    /\ pc = "noise"
    /\ p' = VFloor(t)
    /\ pc' = "corners"
    /\ UNCHANGED <<arith, app_vars, t, w, corners, sampled, beside, mesh_vars, hash_vars, fbm_vars>>

NoiseCorners ==
    /\ pc = "corners"
    /\ corners' = noise_lattice(p)
    /\ pc' = "fract"
    /\ UNCHANGED <<arith, app_vars, t, p, w, sampled, beside, mesh_vars, hash_vars, fbm_vars>>

NoiseFract ==
    /\ pc = "fract"
    /\ w' = fract_gl(t)
    /\ pc' = "blend"
    /\ UNCHANGED <<arith, app_vars, t, p, corners, sampled, beside, mesh_vars, hash_vars, fbm_vars>>

NoiseBlend ==
    /\ pc = "blend"
    /\ sampled' = noise_cell(p, w)
    /\ pc' = "sampled"
    /\ UNCHANGED <<arith, app_vars, t, p, w, corners, beside, mesh_vars, hash_vars, fbm_vars>>

NextNoise == NoiseFloor \/ NoiseCorners \/ NoiseFract \/ NoiseBlend

SpecNoise == InitNoise /\ [][NextNoise]_vars

FloorOf(x) == RealToI32(RealFloor(Exact(x)))

\* C8: the cell is the floor of the point in each component, the fractional
\* part is at least 0 and strictly below 1 in each component, and the four
\* lattice points hashed are the cell and the cell moved by (1,0), (0,1)
\* and (1,1).
C8_FloorAndFraction ==
    pc = "sampled" =>
        /\ \A i \in 1..2 :
              /\ RealEq(Exact(p[i]), RealFloor(Exact(t[i])))
              /\ RealSign(Exact(w[i])) >= 0
              /\ RealLt(Exact(w[i]), RealOf(1, 0, 0))
        /\ corners = << <<FloorOf(t[1]), FloorOf(t[2])>>,
                        <<FloorOf(t[1]) + 1, FloorOf(t[2])>>,
                        <<FloorOf(t[1]), FloorOf(t[2]) + 1>>,
                        <<FloorOf(t[1]) + 1, FloorOf(t[2]) + 1>> >>

(***************************************************************************)
(* The formula of noise on the edges of a cell: the cell p at a point of   *)
(* its left or lower edge, and the cells to the left and below at the same *)
(* point, which is on their right or upper edge.                           *)
(***************************************************************************)
CellRange == 1
FracBits == 2
EdgeFracs == {Lit(k, -FracBits, 0) : k \in 0..(2^FracBits - 1)}

InitCell ==
    /\ arith \in {"f32", "real"}
    /\ AppIdle
    /\ pc = "cell"
    /\ t = <<>> /\ corners = <<>> /\ sampled = <<>> /\ beside = <<>>
    /\ \E i, j \in (-CellRange)..CellRange : p = <<Num(i), Num(j)>>
    /\ \E f \in EdgeFracs : w \in {<<Num(0), f>>, <<f, Num(0)>>}
    /\ MeshIdle /\ HashIdle /\ FbmIdle

CellSample ==
    /\ pc = "cell"
    /\ sampled' = noise_cell(p, w)
    /\ pc' = "beside"
    /\ UNCHANGED <<arith, app_vars, t, p, w, corners, beside, mesh_vars, hash_vars, fbm_vars>>

CellBeside ==
    /\ pc = "beside"
    /\ beside' = <<noise_cell(VSub(p, <<Num(1), Num(0)>>), <<Num(1), w[2]>>),
                   noise_cell(VSub(p, <<Num(0), Num(1)>>), <<w[1], Num(1)>>)>>
    /\ pc' = "edge"
    /\ UNCHANGED <<arith, app_vars, t, p, w, corners, sampled, mesh_vars, hash_vars, fbm_vars>>

NextCell == CellSample \/ CellBeside

SpecCell == InitCell /\ [][NextCell]_vars

IsZero(x) == Sign(x) = 0
\* equal over the reals; in binary32, equal up to the rounding of the sums
RoundingSlack == RealOf(1, -20, 0)
Agree(x, y) ==
    IF arith = "real" THEN RealEq(x, y)
    ELSE /\ RealLe(RealSub(Exact(x), Exact(y)), RoundingSlack)
         /\ RealLe(RealSub(Exact(y), Exact(x)), RoundingSlack)
\* hash(c0) + (hash(c1) - hash(c0)) * S(f)
EdgeValue(c0, c1, f) == Add(hash(c0), Mul(Sub(hash(c1), hash(c0)), smoothstep(f)))

\* C9: on the edge frac.x = 0 of cell (i, j) the value is what the formula
\* of cell (i-1, j) gives at frac.x = 1, both being hash(i,j) +
\* (hash(i,j+1) - hash(i,j)) * S(frac.y), and the x component of the
\* derivative is 0 on both sides; the same on the edge frac.y = 0 with the
\* cell (i, j-1) and the y component; at frac = (0,0) the value is hash(i,j)
\* and the derivative (0,0).
C9_Continuity ==
    pc = "edge" =>
        /\ IsZero(w[1]) =>
              /\ Agree(beside[1].value, sampled.value)
              /\ Eq(sampled.value, EdgeValue(p, VAdd(p, <<Num(0), Num(1)>>), w[2]))
              /\ Agree(beside[1].value, EdgeValue(p, VAdd(p, <<Num(0), Num(1)>>), w[2]))
              /\ IsZero(sampled.derivative[1]) /\ IsZero(beside[1].derivative[1])
        /\ IsZero(w[2]) =>
              /\ Agree(beside[2].value, sampled.value)
              /\ Eq(sampled.value, EdgeValue(p, VAdd(p, <<Num(1), Num(0)>>), w[1]))
              /\ Agree(beside[2].value, EdgeValue(p, VAdd(p, <<Num(1), Num(0)>>), w[1]))
              /\ IsZero(sampled.derivative[2]) /\ IsZero(beside[2].derivative[2])
        /\ IsZero(w[1]) /\ IsZero(w[2]) =>
              /\ Eq(sampled.value, hash(p))
              /\ IsZero(sampled.derivative[1]) /\ IsZero(sampled.derivative[2])
C9_Witness ==
    /\ pc = "edge" /\ arith = "real"
    /\ p = <<Num(-1), Num(0)>> /\ w = <<Num(0), Lit(3, -2, 0)>>
    /\ RealEq(beside[1].value, sampled.value)
    /\ ~IsZero(sampled.value) /\ ~IsZero(sampled.derivative[2])

(***************************************************************************)
(* fbm, one pass of its loop at a time                                     *)
(***************************************************************************)
FbmRange == 1

InitFbm ==
    /\ arith \in {"f32", "real"}
    /\ AppIdle
    /\ pc = "fbm"
    /\ \E x, z \in (-FbmRange)..FbmRange :
          point = VDivScalar(<<Num(x), Num(z)>>, Num(scale))
    /\ octave = 0 /\ acc = <<>>
    /\ MeshIdle /\ HashIdle /\ NoiseIdle

FbmBegin ==
    /\ pc = "fbm"
    /\ acc' = fbm_init(point)
    /\ pc' = "octaves"
    /\ UNCHANGED <<arith, app_vars, point, octave, mesh_vars, hash_vars, noise_vars>>

FbmOctave ==
    /\ pc = "octaves"
    /\ octave < Octaves
    /\ acc' = fbm_octave(acc)
    /\ octave' = octave + 1
    /\ UNCHANGED <<arith, app_vars, pc, point, mesh_vars, hash_vars, noise_vars>>

FbmReturn ==
    /\ pc = "octaves"
    /\ ~(octave < Octaves)
    /\ sampled' = fbm_result(acc)
    /\ pc' = "done"
    /\ UNCHANGED <<arith, app_vars, fbm_vars, mesh_vars, hash_vars, t, p, w, corners, beside>>

NextFbm == FbmBegin \/ FbmOctave \/ FbmReturn

SpecFbm == InitFbm /\ [][NextFbm]_vars

\* matrices and vectors over the reals, columns first as in glam
ExactV(v) == <<Exact(v[1]), Exact(v[2])>>
ExactM(M) == <<ExactV(M[1]), ExactV(M[2])>>
RealMulVec2(M, v) ==
    <<RealAdd(RealMul(M[1][1], v[1]), RealMul(M[2][1], v[2])),
      RealAdd(RealMul(M[1][2], v[1]), RealMul(M[2][2], v[2]))>>
RealMulMat2(M, N) == <<RealMulVec2(M, N[1]), RealMulVec2(M, N[2])>>
RECURSIVE RealMatPow(_, _)
RealMatPow(M, k) ==
    IF k = 0 THEN <<<<RealOf(1, 0, 0), RealOf(0, 0, 0)>>, <<RealOf(0, 0, 0), RealOf(1, 0, 0)>>>>
    ELSE RealMulMat2(M, RealMatPow(M, k - 1))
Transpose(M) == <<<<M[1][1], M[2][1]>>, <<M[1][2], M[2][2]>>>>
\* R, R^T and their doubles, with the entries the program holds
R == ExactM(ROTATION)
RT == ExactM(ROTATION_TRANSPOSE)
TwoR == ExactM(ScaleMat2(scale_factor, ROTATION))
TwoRT == ExactM(ScaleMat2(scale_factor, ROTATION_TRANSPOSE))
\* equal over the reals; in binary32, equal up to the rounding of k passes,
\* for numbers of the size of 2^k
Near(x, y, k) ==
    IF arith = "real" THEN RealEq(x, y)
    ELSE /\ RealLe(RealSub(x, y), RealOf(1, k - 18, 0))
         /\ RealLe(RealSub(y, x), RealOf(1, k - 18, 0))
VNear(v, u, k) == Near(v[1], u[1], k) /\ Near(v[2], u[2], k)
MNear(M, N, k) == VNear(M[1], N[1], k) /\ VNear(M[2], N[2], k)

\* C7: when k passes are done the point is (2R)^k times the input point,
\* the scale is 2^-k, the rotation is (2 R^T)^k, which is the transpose of
\* (2R)^k, the pass that follows adds (R^T)^k times the derivative of noise
\* to the derivative, and fbm returns after 11 passes.
C7_FbmOctaves ==
    /\ pc = "octaves" =>
          /\ octave \in 0..Octaves
          /\ RealEq(Exact(acc.scale), RealOf(1, -octave, 0))
          /\ VNear(ExactV(acc.p),
                   RealMulVec2(RealMatPow(TwoR, octave), ExactV(point)), octave)
          /\ MNear(ExactM(acc.rotation), RealMatPow(TwoRT, octave), octave)
          /\ MNear(ExactM(acc.rotation), Transpose(RealMatPow(TwoR, octave)), octave)
          /\ octave < Octaves =>
                VNear(<<RealSub(Exact(fbm_octave(acc).derivative[1]),
                                Exact(acc.derivative[1])),
                        RealSub(Exact(fbm_octave(acc).derivative[2]),
                                Exact(acc.derivative[2]))>>,
                      RealMulVec2(RealMatPow(RT, octave),
                                  ExactV(noise(acc.p).derivative)), 0)
    /\ pc = "done" =>
          /\ octave = Octaves
          /\ sampled = [value |-> acc.value, derivative |-> acc.derivative]
C7_Witness ==
    /\ pc = "octaves" /\ arith = "real" /\ octave = Octaves - 1
    /\ ~IsZero(point[1])
    /\ RealEq(acc.scale, RealOf(1, -10, 0))
    /\ ~IsZero(noise(acc.p).derivative[1])

(***************************************************************************)
(* The application: main.rs and the systems of terrain.rs it schedules     *)
(***************************************************************************)
MaxPresses == 3

InitApp ==
    /\ arith = "f32"
    /\ pc = "app"
    /\ AppIdle
    /\ MeshIdle /\ HashIdle /\ NoiseIdle /\ FbmIdle

\* The start of a frame: the input of the frame is read (PreUpdate), then
\* the StateTransition schedule makes a stage asked for the current one.
StateTransition ==
    /\ pc = "app" /\ schedule = "StateTransition"
    /\ stage' = IF next_state = "Unchanged" THEN stage ELSE next_state
    /\ next_state' = "Unchanged"
    /\ just_pressed' \in
           SUBSET (IF presses < MaxPresses THEN {"KeyM", "KeyN"} ELSE {"KeyN"})
    /\ ran' = {}
    /\ schedule' = "Update"
    /\ UNCHANGED <<arith, pc, loaded, wireframe_mode, show_normals, tasks,
                   task_entities, tiles, normal_lines, commands, presses,
                   mesh_vars, hash_vars, noise_vars, fbm_vars>>

\* fn start_game, run_if(in_state(Stage::Loading))
start_game ==
    /\ pc = "app" /\ schedule = "Update" /\ stage = "Loading"
    /\ "start_game" \notin ran
    /\ ran' = ran \cup {"start_game"}
    /\ next_state' = IF loaded THEN "Running" ELSE next_state
    /\ UNCHANGED <<arith, pc, stage, loaded, wireframe_mode, show_normals,
                   tasks, task_entities, tiles, normal_lines, commands,
                   schedule, just_pressed, presses,
                   mesh_vars, hash_vars, noise_vars, fbm_vars>>

\* fn start_terrain_generation, run_if(in_state(Stage::Loading)): the query
\* sees the entities of the world, not the commands still queued; the task
\* starts on the pool at once, its entity is spawned by a command
start_terrain_generation ==
    /\ pc = "app" /\ schedule = "Update" /\ stage = "Loading"
    /\ "start_terrain_generation" \notin ran
    /\ ran' = ran \cup {"start_terrain_generation"}
    /\ IF task_entities = {}
       THEN /\ tasks' = Append(tasks, "running")
            /\ commands' = Append(commands, <<"spawn_task", Len(tasks) + 1>>)
       ELSE UNCHANGED <<tasks, commands>>
    /\ UNCHANGED <<arith, pc, stage, next_state, loaded, wireframe_mode,
                   show_normals, task_entities, tiles, normal_lines,
                   schedule, just_pressed, presses,
                   mesh_vars, hash_vars, noise_vars, fbm_vars>>

\* the task on the pool, terrain::generate_terrain_mesh(), returns
TaskComplete ==
    /\ pc = "app"
    /\ \E i \in DOMAIN tasks :
           /\ tasks[i] = "running"
           /\ tasks' = [tasks EXCEPT ![i] = "finished"]
    /\ UNCHANGED <<arith, pc, stage, next_state, loaded, wireframe_mode, show_normals,
                   task_entities, tiles, normal_lines, commands, schedule, ran,
                   just_pressed, presses,
                   mesh_vars, hash_vars, noise_vars, fbm_vars>>

\* The commands setup_terrain queues once the buffers are built: the Tile,
\* with Wireframe if wireframe_mode is set, and spawn_normals' NormalLines
\* with Visibility::Hidden.
setup_terrain(mode) == <<<<"spawn_tile", mode>>, <<"spawn_normals", FALSE>>>>

\* terrain::check_terrain_generation, run_if(in_state(Stage::Loading)): the
\* polling of the outstanding task.  For every task entity whose task has
\* returned, the result is taken, the terrain is set up from it as
\* setup_terrain does, the task entity is despawned and loaded is set.
check_terrain_generation ==
    /\ pc = "app" /\ schedule = "Update" /\ stage = "Loading"
    /\ "check_terrain_generation" \notin ran
    /\ ran' = ran \cup {"check_terrain_generation"}
    /\ \E done \in {SelectSeq([i \in 1..Len(tasks) |-> i],
                        LAMBDA i : i \in task_entities /\ tasks[i] = "finished")} :
           /\ tasks' = [i \in 1..Len(tasks) |->
                            IF i \in task_entities /\ tasks[i] = "finished"
                            THEN "taken" ELSE tasks[i]]
           /\ commands' = commands
                  \o [k \in 1..(2 * Len(done)) |->
                         setup_terrain(wireframe_mode)[((k - 1) % 2) + 1]]
                  \o [k \in 1..Len(done) |-> <<"despawn_task", done[k]>>]
           /\ loaded' = (loaded \/ done # <<>>)
    /\ UNCHANGED <<arith, pc, stage, next_state, wireframe_mode, show_normals,
                   task_entities, tiles, normal_lines, schedule,
                   just_pressed, presses,
                   mesh_vars, hash_vars, noise_vars, fbm_vars>>

\* a fault of toggle_wireframe_system: the mode is tested before it is flipped
toggle_wireframe_stale ==
    /\ pc = "app" /\ schedule = "Update" /\ stage = "Running"
    /\ "toggle_wireframe_system" \notin ran
    /\ ran' = ran \cup {"toggle_wireframe_system"}
    /\ IF "KeyM" \in just_pressed
       THEN /\ wireframe_mode' = ~wireframe_mode
            /\ commands' = commands \o
                   [k \in 1..Len(tiles) |->
                       IF wireframe_mode THEN <<"insert_wireframe", k>>
                       ELSE <<"remove_wireframe", k>>]
            /\ presses' = presses + 1
       ELSE UNCHANGED <<wireframe_mode, commands, presses>>
    /\ UNCHANGED <<arith, pc, stage, next_state, loaded, show_normals, tasks,
                   task_entities, tiles, normal_lines, schedule, just_pressed,
                   mesh_vars, hash_vars, noise_vars, fbm_vars>>

\* pub fn toggle_wireframe_system, run_if(in_state(Stage::Running))
toggle_wireframe_system ==
    /\ pc = "app" /\ schedule = "Update" /\ stage = "Running"
    /\ "toggle_wireframe_system" \notin ran
    /\ ran' = ran \cup {"toggle_wireframe_system"}
    /\ IF "KeyM" \in just_pressed
       THEN /\ wireframe_mode' = ~wireframe_mode
            /\ commands' = commands \o
                   [k \in 1..Len(tiles) |->
                       IF wireframe_mode' THEN <<"insert_wireframe", k>>
                       ELSE <<"remove_wireframe", k>>]
            /\ presses' = presses + 1
       ELSE UNCHANGED <<wireframe_mode, commands, presses>>
    /\ UNCHANGED <<arith, pc, stage, next_state, loaded, show_normals, tasks,
                   task_entities, tiles, normal_lines, schedule, just_pressed,
                   mesh_vars, hash_vars, noise_vars, fbm_vars>>

\* pub fn toggle_normals_system, run_if(in_state(Stage::Running)): single_mut
\* is Ok when exactly one NormalLines entity exists
toggle_normals_system ==
    /\ pc = "app" /\ schedule = "Update" /\ stage = "Running"
    /\ "toggle_normals_system" \notin ran
    /\ ran' = ran \cup {"toggle_normals_system"}
    /\ IF "KeyN" \in just_pressed
       THEN /\ show_normals' = ~show_normals
            /\ normal_lines' = IF Len(normal_lines) = 1
                               THEN <<show_normals'>> ELSE normal_lines
       ELSE UNCHANGED <<show_normals, normal_lines>>
    /\ UNCHANGED <<arith, pc, stage, next_state, loaded, wireframe_mode, tasks,
                   task_entities, tiles, commands, schedule, just_pressed,
                   presses, mesh_vars, hash_vars, noise_vars, fbm_vars>>

\* the commands of a queue applied in order to the entities of the world
RECURSIVE apply_deferred(_, _)
apply_deferred(world, queue) ==
    IF queue = <<>> THEN world
    ELSE apply_deferred(
        CASE Head(queue)[1] = "spawn_task" ->
                 [world EXCEPT !.task_entities = @ \cup {Head(queue)[2]}]
          [] Head(queue)[1] = "despawn_task" ->
                 [world EXCEPT !.task_entities = @ \ {Head(queue)[2]}]
          [] Head(queue)[1] = "spawn_tile" ->
                 [world EXCEPT !.tiles = Append(@, Head(queue)[2])]
          [] Head(queue)[1] = "spawn_normals" ->
                 [world EXCEPT !.normal_lines = Append(@, Head(queue)[2])]
          [] Head(queue)[1] = "insert_wireframe" ->
                 [world EXCEPT !.tiles[Head(queue)[2]] = TRUE]
          [] Head(queue)[1] = "remove_wireframe" ->
                 [world EXCEPT !.tiles[Head(queue)[2]] = FALSE],
        Tail(queue))

\* The end of Update, once every system of the stage has run: the queued
\* commands reach the world.
ApplyDeferred ==
    /\ pc = "app" /\ schedule = "Update"
    /\ ran = IF stage = "Loading"
             THEN {"start_game", "start_terrain_generation",
                   "check_terrain_generation"}
             ELSE {"toggle_wireframe_system", "toggle_normals_system"}
    /\ \E world \in {apply_deferred(
                        [task_entities |-> task_entities, tiles |-> tiles,
                         normal_lines |-> normal_lines], commands)} :
           /\ task_entities' = world.task_entities
           /\ tiles' = world.tiles
           /\ normal_lines' = world.normal_lines
    /\ commands' = <<>>
    /\ schedule' = "StateTransition"
    /\ UNCHANGED <<arith, pc, stage, next_state, loaded, wireframe_mode,
                   show_normals, tasks, ran, just_pressed, presses,
                   mesh_vars, hash_vars, noise_vars, fbm_vars>>

NextApp ==
    \/ StateTransition
    \/ start_game
    \/ start_terrain_generation
    \/ TaskComplete
    \/ check_terrain_generation
    \/ toggle_wireframe_system
    \/ toggle_normals_system
    \/ ApplyDeferred

SpecApp == InitApp /\ [][NextApp]_vars

(***************************************************************************)
(* Properties of the application                                           *)
(***************************************************************************)
\* the generation tasks that have been started and have not returned
InFlight == {i \in DOMAIN tasks : tasks[i] = "running"}

C13_WireframeFollowsMode ==
    /\ [](/\ commands = <<>> =>
                \A k \in DOMAIN tiles : tiles[k] = wireframe_mode
          /\ wireframe_mode = (presses % 2 = 1))
    /\ [][presses' # presses =>
              /\ presses' = presses + 1
              /\ wireframe_mode' = ~wireframe_mode
              /\ show_normals' = show_normals]_vars

\* M pressed twice with the terrain set up: the Tile is back without
\* Wireframe and the mode is off again
C13_Witness ==
    /\ presses = 2 /\ commands = <<>>
    /\ tiles = <<FALSE>> /\ ~wireframe_mode

====
